---- MODULE Spec2Model ----
(***************************************************************************)
(* SerializedModuleLoader (lib/Serialization/SerializedModuleLoader.cpp):  *)
(* the loader that finds a serialized module, parses it, registers a       *)
(* module handle in the context's module table, records usable module      *)
(* files with the generation at which they became usable, and dispatches   *)
(* queries to the module file of a handle.                                 *)
(*                                                                         *)
(* Every call of the loader is one atomic action (the loader is            *)
(* single-threaded and synchronous).  The variable `last` holds what the   *)
(* most recent call observed and returned, `diags` what it reported.       *)
(***************************************************************************)
EXTENDS Integers, Sequences, FiniteSets, TLC

\* ------------------------------------------------------------------------
\* Bounds and input sets
\* ------------------------------------------------------------------------

\* Number of SerializedModule objects (handles) a behaviour may allocate.
MaxLoads == 2

\* Module names (identifiers): the keys of the module table and of the
\* registered buffers, and what dependency lists name.
Names == {"A", "B", "C"}

\* Module paths of the requests: one element (a top-level module) or two
\* (a submodule).
Paths == {<<"A">>, <<"B">>, <<"A", "B">>}

\* Ctx.ImportSearchPaths, in configured order.
ImportSearchPaths == <<"sp1", "sp2">>

\* Disk candidates in the order findModule tries them:
\* 1 = directory of the importing file, 2 = current directory,
\* 2 + i = ImportSearchPaths[i].
NumCandidates == 2 + Len(ImportSearchPaths)

\* Outcome of llvm::MemoryBuffer::getFile on one candidate.
FileResults == {"ok", "ENOENT", "EACCES"}

\* Every file system as seen by one request.
AllDisks == [1..NumCandidates -> FileResults]

\* The file systems the requests of the main specification see.
Disks ==
    {[i \in 1..NumCandidates |-> "ENOENT"],
     [i \in 1..NumCandidates |-> IF i = 1 THEN "ok" ELSE "ENOENT"],
     [i \in 1..NumCandidates |-> IF i = NumCandidates THEN "ok" ELSE "EACCES"],
     [i \in 1..NumCandidates |->
         IF i = NumCandidates THEN "EACCES" ELSE "ENOENT"]}

\* The import location: invalid, valid in a buffer whose identifier has no
\* parent directory, valid in a buffer that has one.
AllLocs == {"invalid", "nodir", "dir"}

\* The import locations of the requests of the main specification.
Locs == {"invalid", "dir"}

\* Dependency lists a serialized module may declare (raw access paths).
DepLists == {<<>>, <<"B">>, <<"B", "C">>, <<"C", "B">>}

\* What a buffer holds, as far as the loader can tell: the status
\* ModuleFile::load gives it and the dependencies it declares.
Contents ==
    [status : {"Valid"}, deps : DepLists]
      \cup [status : {"FormatTooNew", "Malformed"}, deps : {<<>>}]

\* A llvm::MemoryBuffer: its identifier (0 = registered in memory,
\* i = disk candidate i) and its content.  NoBuffer is the null pointer;
\* Absent stands for "no entry under this key" in the Bitstreams map.
NoBuffer == [id |-> -1, status |-> "none", deps |-> <<>>]
Absent == [id |-> -2, status |-> "absent", deps |-> <<>>]
Buffer(id, content) ==
    [id |-> id, status |-> content.status, deps |-> content.deps]

\* ------------------------------------------------------------------------
\* State
\* ------------------------------------------------------------------------
VARIABLES
    Bitstreams,         \* registered in-memory buffers: name -> buffer, null
                        \* (entry whose buffer was taken) or Absent
    LoadedModules,      \* Ctx.LoadedModules: name -> handle (0: no entry)
    Modules,            \* the SerializedModule objects, in allocation order
    ModuleFiles,        \* the ModuleFile each load created, by handle
    LoadedModuleFiles,  \* usable module files with their generation
    Generation,         \* Ctx's current generation
    diags,              \* diagnostics emitted by the most recent call
    last,               \* the most recent call: arguments, effects, result
    issued,             \* name -> handle most recently returned for it (0: none)
    readGen,            \* generation a client read most recently
    readLen,            \* Len(LoadedModuleFiles) at that read
    caller,             \* who made the most recent call: "loader" (the loader
                        \* called directly), "context" (through the module
                        \* table's owner), "none" (not a load request)
    request             \* what the most recent recorded load request was
                        \* given: import location, file system, content

vars == <<Bitstreams, LoadedModules, Modules, ModuleFiles, LoadedModuleFiles,
          Generation,
          diags, last, issued, readGen, readLen, caller, request>>

\* A handle is an index into Modules; 0 is the null pointer.  A module file
\* is named by the handle it was created for; 0 is the null pointer.
Handles == 1..Len(Modules)

\* The shape of `last`.
NoCall ==
    [op         |-> "none",
     name       |-> "",        \* module name (loads) or queried name
     path       |-> <<>>,      \* module path (loads) or access path (lookups)
     ret        |-> 0,         \* returned handle (loads)
     memLookup  |-> FALSE,     \* Bitstreams.find ran
     diskSearch |-> FALSE,     \* findModule ran
     err        |-> "none",    \* what findModule returned
     buffer     |-> -1,        \* identifier of the buffer handed to the reader
     parse      |-> "none",    \* status ModuleFile::load returned
     status     |-> "none",    \* status of the module file after the load
     cached     |-> FALSE,     \* answered from the module table by the caller
     module     |-> 0,         \* handle queried
     prev       |-> 0,         \* previousGeneration argument
     delegated  |-> <<>>,      \* module files the call delegated to, in order
     resultsIn  |-> <<>>,      \* results container before the call
     results    |-> <<>>]      \* results container after the call

\* The shape of `request`; `registered` is the entry the Bitstreams map
\* held for the requested name when the request was made.
NoRequest ==
    [loc |-> "none", disk |-> <<>>, deps |-> <<>>, registered |-> Absent]

\* Initial registered buffers: none, or one name registered by the host.
InitialBitstreams ==
    {[n \in Names |-> Absent]} \cup
    {[n \in Names |->
         IF n = "A" THEN Buffer(0, [status |-> "Valid", deps |-> <<>>])
         ELSE Absent]}

\* The keys of the Bitstreams map.
BitstreamKeys(bs) == {n \in Names : bs[n] # Absent}

Init ==
    /\ Bitstreams \in InitialBitstreams
    /\ LoadedModules = [n \in Names |-> 0]
    /\ Modules = <<>>
    /\ ModuleFiles = <<>>
    /\ LoadedModuleFiles = <<>>
    /\ Generation = 0
    /\ diags = <<>>
    /\ last = NoCall
    /\ issued = [n \in Names |-> 0]
    /\ readGen = 0
    /\ readLen = 0
    /\ caller = "none"
    /\ request = NoRequest

\* ------------------------------------------------------------------------
\* The search: registered buffers, then the disk (findModule)
\* ------------------------------------------------------------------------

\* The buffer read with get() instead of take(): the entry keeps it.
takeBitstream_Kept(bs, spath) ==
    IF BitstreamKeys(bs) = {}
    THEN [lookup |-> FALSE, buffer |-> NoBuffer, map |-> bs]
    ELSE IF bs[spath] # Absent
         THEN [lookup |-> TRUE, buffer |-> bs[spath], map |-> bs]
         ELSE [lookup |-> TRUE, buffer |-> NoBuffer, map |-> bs]

\* Lines 93-104: the lookup in the registered bitstreams.  It runs only when
\* the map is not empty; a hit takes the buffer out of the entry
\* (OwningPtr::take), which leaves the entry in the map holding null.
takeBitstream(bs, spath) ==
    IF BitstreamKeys(bs) = {}
    THEN [lookup |-> FALSE, buffer |-> NoBuffer, map |-> bs]
    ELSE IF bs[spath] # Absent
         THEN [lookup |-> TRUE, buffer |-> bs[spath],
               map |-> [bs EXCEPT ![spath] = NoBuffer]]
         ELSE [lookup |-> TRUE, buffer |-> NoBuffer, map |-> bs]

\* The loop given up at the first error that is not file-not-found.
RECURSIVE searchImportPaths_StopsAtError(_, _, _, _)
searchImportPaths_StopsAtError(i, err, disk, content) ==
    IF i > Len(ImportSearchPaths) \/ err = "EACCES"
    THEN [err |-> err, buffer |-> NoBuffer]
    ELSE IF disk[2 + i] = "ok"
         THEN [err |-> "ok", buffer |-> Buffer(2 + i, content)]
         ELSE searchImportPaths_StopsAtError(i + 1, disk[2 + i], disk, content)

\* Lines 70-79: the loop over the import search paths, from path i on;
\* err is the error of the candidate tried before.
RECURSIVE searchImportPaths(_, _, _, _)
searchImportPaths(i, err, disk, content) ==
    IF i > Len(ImportSearchPaths)
    THEN [err |-> err, buffer |-> NoBuffer]
    ELSE IF disk[2 + i] = "ok"
         THEN [err |-> "ok", buffer |-> Buffer(2 + i, content)]
         ELSE searchImportPaths(i + 1, disk[2 + i], disk, content)

\* The current directory tried before the directory of the importing file.
findModule_CurrentDirectoryFirst(importLoc, disk, content) ==
    IF disk[2] = "ok"
    THEN [err |-> "ok", buffer |-> Buffer(2, content)]
    ELSE IF importLoc = "dir" /\ disk[1] = "ok"
         THEN [err |-> "ok", buffer |-> Buffer(1, content)]
         ELSE searchImportPaths(1, disk[2], disk, content)

\* Lines 39-80: findModule.  The directory of the importing file is tried
\* only for a valid location in a buffer that has a parent directory, and
\* its error is dropped; then the current directory; then the search paths.
findModule(importLoc, disk, content) ==
    IF importLoc = "dir" /\ disk[1] = "ok"
    THEN [err |-> "ok", buffer |-> Buffer(1, content)]
    ELSE IF disk[2] = "ok"
         THEN [err |-> "ok", buffer |-> Buffer(2, content)]
         ELSE searchImportPaths(1, disk[2], disk, content)

\* ------------------------------------------------------------------------
\* Parsing, association, registration
\* ------------------------------------------------------------------------

\* ModuleFile::load: the status the reader gives the buffer.
ModuleFile_load(buffer) == buffer.status

\* The bump left out of the Valid case.
generationAfterLoad_NoBump(status, gen) == gen

\* Lines 122-136: the switch on the parse status, as far as the generation
\* goes: Ctx.bumpGeneration() on Valid, nothing otherwise.
generationAfterLoad(status, gen) ==
    IF status = "Valid" THEN gen + 1 ELSE gen

\* The reset of line 132 left out: a malformed module keeps its module file.
loadedModuleFile_MalformedKept(status, h) ==
    IF status \in {"Valid", "Malformed"} THEN h ELSE 0

\* Lines 126-133, 141: loadedModuleFile.get() after the switch: the module
\* file of handle h, or null when the switch reset it.
loadedModuleFile(status, h) ==
    IF status = "Valid" THEN h ELSE 0

\* Lines 127, 131: the diagnostic of the switch.
loadDiagnostics(status, importLoc) ==
    IF status = "FormatTooNew"
    THEN <<[id |-> "serialization_module_too_new", loc |-> importLoc,
            text |-> <<>>]>>
    ELSE IF status = "Malformed"
         THEN <<[id |-> "serialization_malformed_module", loc |-> importLoc,
                 text |-> <<>>]>>
         ELSE <<>>

\* The registration left out: the module table is not written.
registerModule_Skipped(table, name, h) == table

\* Line 144: Ctx.LoadedModules[moduleID.first.str()] = module.
registerModule(table, name, h) == [table EXCEPT ![name] = h]

\* Dependency::isLoaded after ModuleFile::associateWithModule: a dependency
\* is bound when a module of that name is registered in the module table.
isLoaded(dep, table) == table[dep] # 0

\* ModuleFile::associateWithModule: whether every dependency got bound.
associateWithModule(deps, table) ==
    \A i \in 1..Len(deps) : isLoaded(deps[i], table)

\* The filter left out: every dependency is reported.
missingDependencies_All(deps, table) == deps

\* Lines 154-160: the dependencies that are not loaded, in declaration order.
RECURSIVE missingDependencies(_, _)
missingDependencies(deps, table) ==
    IF deps = <<>> THEN <<>>
    ELSE IF isLoaded(Head(deps), table)
         THEN missingDependencies(Tail(deps), table)
         ELSE <<Head(deps)>> \o missingDependencies(Tail(deps), table)

\* Lines 169-176: missingNames, piece by piece as it is appended: a quote,
\* the raw access paths interleaved with "', '", a quote.
RECURSIVE interleave(_)
interleave(missing) ==
    IF missing = <<>> THEN <<>>
    ELSE IF Len(missing) = 1 THEN <<Head(missing)>>
         ELSE <<Head(missing), "', '">> \o interleave(Tail(missing))

missingNames(missing) == <<"'">> \o interleave(missing) \o <<"'">>

\* Lines 164-181: the diagnostic for the missing dependencies.
missingDiagnostics(missing, importLoc) ==
    IF Len(missing) = 1
    THEN <<[id |-> "serialization_missing_single_dependency",
            loc |-> importLoc, text |-> <<missing[1]>>]>>
    ELSE << [id |-> "serialization_missing_dependencies",
            loc |-> importLoc, text |-> missingNames(missing)] >>

\* The entry appended whether or not association succeeded.
recordUsable_Unconditional(list, file, success, gen) ==
    IF file # 0
    THEN Append(list, [file |-> file, gen |-> gen])
    ELSE list

\* The entry recorded with the generation from before the bump.
recordUsable_GenerationBeforeBump(list, file, success, gen) ==
    IF file # 0 /\ success
    THEN Append(list, [file |-> file, gen |-> gen - 1])
    ELSE list

\* Lines 146-150: the entry appended to LoadedModuleFiles when association
\* succeeds, with the generation current at that point.
recordUsable(list, file, success, gen) ==
    IF file # 0 /\ success
    THEN Append(list, [file |-> file, gen |-> gen])
    ELSE list

\* Line 183 left out: the module keeps its module file when association
\* fails.
moduleFileRef_NotReset(file, success) == file

\* Lines 141, 183: the File of the new module: the module file given to the
\* constructor, reset to null when association fails.
moduleFileRef(file, success) ==
    IF file # 0 /\ ~success THEN 0 ELSE file

\* The check of line 109 left out: every failed search is reported.
searchDiagnostics_Always(err, name, importLoc) ==
    <<[id |-> "sema_opening_import", loc |-> importLoc,
       text |-> <<name, err>>]>>

\* The check of line 109 inverted: only file-not-found is reported.
searchDiagnostics_Inverted(err, name, importLoc) ==
    IF err = "ENOENT"
    THEN <<[id |-> "sema_opening_import", loc |-> importLoc,
            text |-> <<name, err>>]>>
    ELSE <<>>

\* Lines 109-112: the diagnostic of a failed search.
searchDiagnostics(err, name, importLoc) ==
    IF err # "ENOENT"
    THEN <<[id |-> "sema_opening_import", loc |-> importLoc,
            text |-> <<name, err>>]>>
    ELSE <<>>

\* A path of any length is let through to the search.
isSubmodulePath_Never(path) == FALSE

\* Line 86: the path names a submodule.
isSubmodulePath(path) == Len(path) > 1

\* ------------------------------------------------------------------------
\* loadModule (lines 83-188)
\* ------------------------------------------------------------------------
loadModule(importLoc, path, disk, content) ==
    IF isSubmodulePath(path)
    THEN \* lines 86-87
         /\ last' = [NoCall EXCEPT !.op = "loadModule", !.name = path[1],
                                   !.path = path]
         /\ diags' = <<>>
         /\ UNCHANGED <<Bitstreams, LoadedModules, Modules, ModuleFiles,
                        LoadedModuleFiles, Generation, issued, readGen,
                        readLen>>
    ELSE
      LET moduleID == path[1]
          taken == takeBitstream(Bitstreams, moduleID)
          onDisk == taken.buffer = NoBuffer
          found == IF onDisk
                   THEN findModule(importLoc, disk, content)
                   ELSE [err |-> "ok", buffer |-> taken.buffer]
          call == [NoCall EXCEPT !.op = "loadModule", !.name = moduleID,
                                 !.path = path,
                                 !.memLookup = taken.lookup,
                                 !.diskSearch = onDisk,
                                 !.err = found.err]
      IN
      IF found.err # "ok"
      THEN \* lines 108-115
           /\ last' = call
           /\ diags' = searchDiagnostics(found.err, moduleID, importLoc)
           /\ Bitstreams' = taken.map
           /\ UNCHANGED <<LoadedModules, Modules, ModuleFiles,
                          LoadedModuleFiles, Generation, issued, readGen,
                          readLen>>
      ELSE
        LET status == ModuleFile_load(found.buffer)
            gen == generationAfterLoad(status, Generation)
            module == Len(Modules) + 1
            file == loadedModuleFile(status, module)
            table == registerModule(LoadedModules, moduleID, module)
            deps == found.buffer.deps
            success == file # 0 /\ associateWithModule(deps, table)
            final == IF file = 0 THEN status
                     ELSE IF success THEN "Valid" ELSE "MissingDependency"
        IN
        /\ Len(Modules) < MaxLoads
        /\ Bitstreams' = taken.map
        /\ Generation' = gen
        /\ LoadedModules' = table
        /\ Modules' = Append(Modules, [Name |-> moduleID,
                                       File |-> moduleFileRef(file, success)])
        /\ ModuleFiles' = Append(ModuleFiles, [parse |-> status,
                                               status |-> final])
        /\ LoadedModuleFiles' =
              recordUsable(LoadedModuleFiles, file, success, gen)
        /\ diags' = loadDiagnostics(status, importLoc) \o
                    (IF file # 0 /\ ~success
                     THEN missingDiagnostics(missingDependencies(deps, table),
                                             importLoc)
                     ELSE <<>>)
        /\ last' = [call EXCEPT !.ret = module, !.buffer = found.buffer.id,
                                !.parse = status, !.status = final]
        /\ issued' = [issued EXCEPT ![moduleID] = module]
        /\ UNCHANGED <<readGen, readLen>>

\* A load request made of the loader directly.
LoadModule ==
    \E importLoc \in Locs, path \in Paths, disk \in Disks, content \in Contents :
        /\ loadModule(importLoc, path, disk, content)
        /\ caller' = "loader"
        /\ UNCHANGED request

\* A load request made through ASTContext::getModule, the caller that
\* enforces at-most-once loading: a top-level name that is in the module
\* table is answered from the table, anything else goes to the loader.
getModule(importLoc, path, disk, content) ==
    IF Len(path) = 1 /\ LoadedModules[path[1]] # 0
    THEN /\ last' = [NoCall EXCEPT !.op = "getModule", !.name = path[1],
                                   !.path = path,
                                   !.ret = LoadedModules[path[1]],
                                   !.cached = TRUE]
         /\ diags' = <<>>
         /\ UNCHANGED <<Bitstreams, LoadedModules, Modules, ModuleFiles,
                        LoadedModuleFiles, Generation, issued, readGen,
                        readLen>>
    ELSE loadModule(importLoc, path, disk, content)

GetModule ==
    \E importLoc \in Locs, path \in Paths, disk \in Disks, content \in Contents :
        /\ getModule(importLoc, path, disk, content)
        /\ caller' = "context"
        /\ UNCHANGED request

\* A client of the incremental queries reads Ctx.getCurrentGeneration().
ReadGeneration ==
    /\ last' = [NoCall EXCEPT !.op = "getCurrentGeneration",
                              !.prev = Generation]
    /\ diags' = <<>>
    /\ readGen' = Generation
    /\ readLen' = Len(LoadedModuleFiles)
    /\ caller' = "none"
    /\ UNCHANGED request
    /\ UNCHANGED <<Bitstreams, LoadedModules, Modules, ModuleFiles,
                   LoadedModuleFiles, Generation, issued>>

\* ------------------------------------------------------------------------
\* Queries (lines 190-297)
\* ------------------------------------------------------------------------

\* What a caller may have in its results container before a query.
ResultsIn == {<<[file |-> 0, what |-> "A"]>>}

\* A query of the ModuleFile `file` (ModuleFile::lookupValue and the like):
\* the module file adds what it has for `what` to the results.
ModuleFile_query(file, what, results) ==
    Append(results, [file |-> file, what |-> what])

\* The results after the module files in `delegated` were queried in order.
RECURSIVE queryAll(_, _, _)
queryAll(delegated, what, results) ==
    IF delegated = <<>> THEN results
    ELSE queryAll(Tail(delegated), what,
                  ModuleFile_query(Head(delegated), what, results))

\* A query call returns: it changes nothing of the loader or the context.
Return(call) ==
    /\ last' = [call EXCEPT
                  !.results = queryAll(call.delegated, call.name,
                                       call.resultsIn)]
    /\ diags' = <<>>
    /\ caller' = "none"
    /\ UNCHANGED <<Bitstreams, LoadedModules, Modules, ModuleFiles,
                   LoadedModuleFiles, Generation, issued, readGen, readLen,
                   request>>

\* lookupValue without the filter of line 198.
lookupValue_Unfiltered(module, accessPath, name, results) ==
    LET call == [NoCall EXCEPT !.op = "lookupValue", !.module = module,
                               !.path = accessPath, !.name = name,
                               !.resultsIn = results]
        moduleFile == Modules[module].File
    IN IF moduleFile = 0
       THEN Return(call)
       ELSE Return([call EXCEPT !.delegated = <<moduleFile>>])

\* Lines 190-206.
lookupValue(module, accessPath, name, results) ==
    LET call == [NoCall EXCEPT !.op = "lookupValue", !.module = module,
                               !.path = accessPath, !.name = name,
                               !.resultsIn = results]
        moduleFile == Modules[module].File
    IN IF Len(accessPath) = 1 /\ accessPath[1] # name
       THEN Return(call)
       ELSE IF moduleFile = 0
            THEN Return(call)
            ELSE Return([call EXCEPT !.delegated = <<moduleFile>>])

\* Lines 208-216.
lookupOperator(module, name) ==
    LET call == [NoCall EXCEPT !.op = "lookupOperator", !.module = module,
                               !.name = name]
        moduleFile == Modules[module].File
    IN IF moduleFile = 0
       THEN Return(call)
       ELSE Return([call EXCEPT !.delegated = <<moduleFile>>])

\* Lines 218-228.
getImportedModules(module, imports) ==
    LET call == [NoCall EXCEPT !.op = "getImportedModules",
                               !.module = module, !.resultsIn = imports]
        moduleFile == Modules[module].File
    IN IF moduleFile = 0
       THEN Return(call)
       ELSE Return([call EXCEPT !.delegated = <<moduleFile>>])

\* Lines 230-241.
lookupVisibleDecls(module, accessPath, consumer) ==
    LET call == [NoCall EXCEPT !.op = "lookupVisibleDecls",
                               !.module = module, !.path = accessPath,
                               !.resultsIn = consumer]
        moduleFile == Modules[module].File
    IN IF moduleFile = 0
       THEN Return(call)
       ELSE Return([call EXCEPT !.delegated = <<moduleFile>>])

\* The comparison off by one: an entry of generation previousGeneration is
\* queried again.
skipsEntry_Strict(generation, previousGeneration) ==
    generation < previousGeneration

\* Line 246 (and 256): whether the loop skips an entry.
skipsEntry(generation, previousGeneration) ==
    generation <= previousGeneration

\* Lines 245-249 (and 255-259): the module files the loop queries, in order.
RECURSIVE newerModuleFiles(_, _)
newerModuleFiles(list, previousGeneration) ==
    IF list = <<>> THEN <<>>
    ELSE IF skipsEntry(Head(list).gen, previousGeneration)
         THEN newerModuleFiles(Tail(list), previousGeneration)
         ELSE <<Head(list).file>> \o
              newerModuleFiles(Tail(list), previousGeneration)

\* Lines 243-250.
loadExtensions(nominal, previousGeneration) ==
    Return([NoCall EXCEPT
              !.op = "loadExtensions", !.name = nominal,
              !.prev = previousGeneration,
              !.delegated = newerModuleFiles(LoadedModuleFiles,
                                             previousGeneration)])

\* Lines 252-260.
loadDeclsConformingTo(kind, previousGeneration) ==
    Return([NoCall EXCEPT
              !.op = "loadDeclsConformingTo", !.name = kind,
              !.prev = previousGeneration,
              !.delegated = newerModuleFiles(LoadedModuleFiles,
                                             previousGeneration)])

\* Lines 262-269.
lookupClassMembers(module, accessPath, consumer) ==
    LET call == [NoCall EXCEPT !.op = "lookupClassMembers",
                               !.module = module, !.path = accessPath,
                               !.resultsIn = consumer]
        moduleFile == Modules[module].File
    IN IF moduleFile = 0
       THEN Return(call)
       ELSE Return([call EXCEPT !.delegated = <<moduleFile>>])

\* Lines 271-280.
lookupClassMember(module, accessPath, name, decls) ==
    LET call == [NoCall EXCEPT !.op = "lookupClassMember",
                               !.module = module, !.path = accessPath,
                               !.name = name, !.resultsIn = decls]
        moduleFile == Modules[module].File
    IN IF moduleFile = 0
       THEN Return(call)
       ELSE Return([call EXCEPT !.delegated = <<moduleFile>>])

\* Lines 282-289.
getLinkLibraries(module, callback) ==
    LET call == [NoCall EXCEPT !.op = "getLinkLibraries",
                               !.module = module, !.resultsIn = callback]
        moduleFile == Modules[module].File
    IN IF moduleFile = 0
       THEN Return(call)
       ELSE Return([call EXCEPT !.delegated = <<moduleFile>>])

\* getDisplayDecls without the null check on the module file.
getDisplayDecls_Unchecked(module, results) ==
    Return([NoCall EXCEPT !.op = "getDisplayDecls", !.module = module,
                          !.resultsIn = results,
                          !.delegated = <<Modules[module].File>>])

\* Lines 291-297.
getDisplayDecls(module, results) ==
    LET call == [NoCall EXCEPT !.op = "getDisplayDecls",
                               !.module = module, !.resultsIn = results]
        moduleFile == Modules[module].File
    IN IF moduleFile = 0
       THEN Return(call)
       ELSE Return([call EXCEPT !.delegated = <<moduleFile>>])

\* Access paths of the lookups: empty, or one element.
AccessPaths == {<<>>, <<"A">>}

\* Names the lookups ask for.
QueryNames == {"A", "B"}

\* previousGeneration arguments.
Generations == 0..MaxLoads

LookupValue ==
    \E module \in Handles, accessPath \in AccessPaths, name \in QueryNames,
       results \in ResultsIn :
        lookupValue(module, accessPath, name, results)

LookupOperator ==
    \E module \in Handles, name \in QueryNames : lookupOperator(module, name)

GetImportedModules ==
    \E module \in Handles, imports \in ResultsIn :
        getImportedModules(module, imports)

LookupVisibleDecls ==
    \E module \in Handles, accessPath \in AccessPaths, consumer \in ResultsIn :
        lookupVisibleDecls(module, accessPath, consumer)

LoadExtensions ==
    \E nominal \in QueryNames, previousGeneration \in Generations :
        loadExtensions(nominal, previousGeneration)

LoadDeclsConformingTo ==
    \E kind \in QueryNames, previousGeneration \in Generations :
        loadDeclsConformingTo(kind, previousGeneration)

LookupClassMembers ==
    \E module \in Handles, accessPath \in AccessPaths, consumer \in ResultsIn :
        lookupClassMembers(module, accessPath, consumer)

LookupClassMember ==
    \E module \in Handles, accessPath \in AccessPaths, name \in QueryNames,
       decls \in ResultsIn :
        lookupClassMember(module, accessPath, name, decls)

GetLinkLibraries ==
    \E module \in Handles, callback \in ResultsIn :
        getLinkLibraries(module, callback)

GetDisplayDecls ==
    \E module \in Handles, results \in ResultsIn :
        getDisplayDecls(module, results)

\* The loader with its incremental-query clients.
Next ==
    \/ LoadModule
    \/ ReadGeneration
    \/ LoadExtensions
    \/ LoadDeclsConformingTo

Spec == Init /\ [][Next]_vars

\* The loader called directly and through the module table's owner.
ImportNext ==
    \/ LoadModule
    \/ GetModule

ImportSpec == Init /\ [][ImportNext]_vars

\* The loader with the per-module queries of the dispatcher; the requests
\* find their file in the current directory or nowhere.
QueryDisks ==
    {[i \in 1..NumCandidates |-> "ENOENT"],
     [i \in 1..NumCandidates |-> IF i = 2 THEN "ok" ELSE "ENOENT"]}

QueryLoadModule ==
    \E path \in Paths, disk \in QueryDisks, content \in Contents :
        /\ loadModule("invalid", path, disk, content)
        /\ caller' = "loader"
        /\ UNCHANGED request

QueryNext ==
    \/ QueryLoadModule
    \/ LookupValue
    \/ LookupOperator
    \/ GetImportedModules
    \/ LookupVisibleDecls
    \/ LoadExtensions
    \/ LoadDeclsConformingTo
    \/ LookupClassMembers
    \/ LookupClassMember
    \/ GetLinkLibraries
    \/ GetDisplayDecls

QuerySpec == Init /\ [][QueryNext]_vars

\* A load request of the loader whose inputs are kept in `request`.
recordedLoadModule(importLoc, path, disk, content) ==
    /\ loadModule(importLoc, path, disk, content)
    /\ caller' = "loader"
    /\ request' = [loc |-> importLoc, disk |-> disk, deps |-> content.deps,
                   registered |-> Bitstreams[path[1]]]

\* The search: requests for A from every import location over every file
\* system; the files hold a valid module without dependencies.
SearchLoadModule ==
    \E importLoc \in AllLocs, disk \in AllDisks :
        recordedLoadModule(importLoc, <<"A">>, disk,
                           [status |-> "Valid", deps |-> <<>>])

SearchNext == SearchLoadModule

SearchSpec == Init /\ [][SearchNext]_vars

\* The dependencies: requests for A and B whose file is in the current
\* directory and holds any of the contents.
DependencyLoadModule ==
    \E path \in {<<"A">>, <<"B">>}, content \in Contents :
        recordedLoadModule("invalid", path,
                           [i \in 1..NumCandidates |->
                               IF i = 2 THEN "ok" ELSE "ENOENT"],
                           content)

DependencyNext == DependencyLoadModule

DependencySpec == Init /\ [][DependencyNext]_vars

\* ------------------------------------------------------------------------
\* Properties
\* ------------------------------------------------------------------------

\* The step is a load request for the one-element path <<n>>.
LoadRequestFor(n) ==
    /\ caller' \in {"loader", "context"}
    /\ last'.op \in {"loadModule", "getModule"}
    /\ last'.path = <<n>>

\* C1 as stated: once a request for a name has produced a handle, a later
\* request for the same name, however it is made, runs neither the
\* registered-buffer lookup nor the disk search and returns that handle.
C1_AtMostOnceLoad ==
    [][\A n \in Names :
          (issued[n] # 0 /\ LoadRequestFor(n))
              => /\ ~last'.memLookup
                 /\ ~last'.diskSearch
                 /\ last'.ret = issued[n]]_vars

\* C1 amended: a request made through the owner of the module table for a
\* name that already got a handle is answered from the table, without any
\* search, with the handle most recently returned for that name; a request
\* made of the loader directly always searches, and a handle it returns is
\* a newly allocated one that replaces the table entry.
C1_AtMostOnceThroughModuleTable ==
    [][\A n \in Names :
          (issued[n] # 0 /\ LoadRequestFor(n))
              => /\ caller' = "context"
                    => /\ last'.cached
                       /\ ~last'.memLookup
                       /\ ~last'.diskSearch
                       /\ last'.ret = issued[n]
                       /\ UNCHANGED <<Modules, LoadedModules, Bitstreams>>
                 /\ caller' = "loader"
                    => /\ last'.diskSearch \/ last'.buffer = 0
                       /\ last'.ret # 0
                            => /\ last'.ret = Len(Modules) + 1
                               /\ last'.ret # issued[n]
                               /\ LoadedModules'[n] = last'.ret]_vars

\* C1 witness: a request through the module table answered with the handle
\* an earlier request produced.
C1_Witness ==
    /\ last.op = "getModule"
    /\ last.cached
    /\ last.ret # 0
    /\ last.ret = issued[last.name]

\* C2 as stated: the generation counter has increased exactly once per load
\* that ended usable (Valid parse and successful association), so its value
\* is the number of usable module files.
C2_GenerationCountsUsableLoads ==
    Generation = Len(LoadedModuleFiles)
\* The handles whose module file is in LoadedModuleFiles.
RegisteredFiles ==
    {LoadedModuleFiles[i].file : i \in 1..Len(LoadedModuleFiles)}

\* C3: between load requests, a module file is in LoadedModuleFiles exactly
\* when its parse was Valid and its association succeeded, and the handles
\* whose File is set are exactly the handles of the module files in that
\* list, each pointing at its own module file, listed once.
C3_RegistryHoldsExactlyUsable ==
    /\ \A h \in Handles :
          /\ h \in RegisteredFiles
                <=> (ModuleFiles[h].parse = "Valid"
                        /\ ModuleFiles[h].status = "Valid")
          /\ Modules[h].File # 0 <=> h \in RegisteredFiles
          /\ Modules[h].File # 0 => Modules[h].File = h
    /\ RegisteredFiles \subseteq Handles
    /\ Cardinality(RegisteredFiles) = Len(LoadedModuleFiles)

\* C3 witness: a usable module and a module whose Valid parse failed
\* association, side by side.
C3_Witness ==
    \E h1, h2 \in Handles :
        /\ h1 \in RegisteredFiles
        /\ Modules[h1].File = h1
        /\ ModuleFiles[h2].status = "MissingDependency"
        /\ Modules[h2].File = 0

\* The two queries that take a previous generation.
GenerationQueries == {"loadExtensions", "loadDeclsConformingTo"}

\* C4: a generation query called with the generation a client read queries
\* exactly the module files registered after that read, each once, in
\* registration order.
C4_QueriesExactlyWhatIsNewSinceRead ==
    (last.op \in GenerationQueries /\ last.prev = readGen)
        => last.delegated =
              [i \in 1..(Len(LoadedModuleFiles) - readLen) |->
                  LoadedModuleFiles[readLen + i].file]

\* C4 witness: one module was usable before the read and one became usable
\* after it; the query asks the second alone.
C4_Witness ==
    /\ last.op = "loadExtensions"
    /\ last.prev = readGen
    /\ readLen >= 1
    /\ Len(LoadedModuleFiles) > readLen
    /\ Len(last.delegated) = 1

\* The position of module file f in LoadedModuleFiles.
PositionOf(f) ==
    CHOOSE i \in 1..Len(LoadedModuleFiles) : LoadedModuleFiles[i].file = f

\* C5: loadExtensions and loadDeclsConformingTo delegate to exactly the
\* entries whose generation is greater than previousGeneration, in
\* registration order, and skip the entries whose generation is less than or
\* equal to it.
C5_DelegatesToNewerEntriesInOrder ==
    last.op \in GenerationQueries
        => /\ \A i \in 1..Len(LoadedModuleFiles) :
                 LoadedModuleFiles[i].gen > last.prev
                    <=> \E j \in 1..Len(last.delegated) :
                           last.delegated[j] = LoadedModuleFiles[i].file
           /\ \A j \in 1..Len(last.delegated) :
                 last.delegated[j] \in RegisteredFiles
           /\ \A j, k \in 1..Len(last.delegated) :
                 j < k => PositionOf(last.delegated[j])
                             < PositionOf(last.delegated[k])

\* C5 witness: of two entries, the older is skipped and the newer queried.
C5_Witness ==
    /\ last.op = "loadDeclsConformingTo"
    /\ Len(LoadedModuleFiles) = 2
    /\ LoadedModuleFiles[1].gen <= last.prev
    /\ last.delegated = <<LoadedModuleFiles[2].file>>

\* The queries that take a module handle.
HandleQueries ==
    {"lookupValue", "lookupOperator", "getImportedModules",
     "lookupVisibleDecls", "lookupClassMembers", "lookupClassMember",
     "getLinkLibraries", "getDisplayDecls"}

\* C6: a query of a handle whose File is null delegates to no module file,
\* leaves the results as they were and changes neither the module table, the
\* registry list, the generation nor the registered buffers; and the
\* generation queries never ask the module file of an inert module.
C6_InertQueriesAreNoOps ==
    /\ [][(/\ last'.op \in HandleQueries
           /\ last'.module \in Handles
           /\ Modules[last'.module].File = 0)
             => /\ last'.delegated = <<>>
                /\ last'.results = last'.resultsIn
                /\ diags' = <<>>
                /\ UNCHANGED <<LoadedModules, LoadedModuleFiles, Generation,
                               Modules, Bitstreams>>]_vars
    /\ [](last.op \in GenerationQueries
            => \A j \in 1..Len(last.delegated) :
                  /\ last.delegated[j] \in Handles
                  /\ Modules[last.delegated[j]].File # 0
                  /\ ModuleFiles[last.delegated[j]].status = "Valid")

\* C6 witness: getDisplayDecls of a module left inert by a missing
\* dependency, while another module is usable.
C6_Witness ==
    /\ last.op = "getDisplayDecls"
    /\ ModuleFiles[last.module].status = "MissingDependency"
    /\ Modules[last.module].File = 0
    /\ last.delegated = <<>>
    /\ LoadedModuleFiles # <<>>

\* Handle h was left inert by a Valid parse whose association failed.
MissingDependencyModule(h) ==
    ModuleFiles[h].status = "MissingDependency"

\* C7 as stated: a module left inert by a missing dependency has its File
\* null and is not in the registry list, and from then on the handle
\* registered under its name is one whose File is null.
C7_NameStaysInert ==
    [][\A h \in 1..Len(Modules') :
          MissingDependencyModule(h)'
             => /\ Modules'[h].File = 0
                /\ \A i \in 1..Len(LoadedModuleFiles') :
                      LoadedModuleFiles'[i].file # h
                /\ LoadedModules'[Modules'[h].Name] # 0
                /\ Modules'[LoadedModules'[Modules'[h].Name]].File = 0]_vars

\* C7 amended: the handle is registered under the name by the load that
\* created it, its File is null and stays null, its module file never
\* enters the registry list, and the name keeps naming that handle as long
\* as requests come through the owner of the module table; the loader
\* called directly for the same name registers a new handle instead.
C7_InertHandleStaysInert ==
    [][\A h \in 1..Len(Modules') :
          MissingDependencyModule(h)'
             => /\ Modules'[h].File = 0
                /\ \A i \in 1..Len(LoadedModuleFiles') :
                      LoadedModuleFiles'[i].file # h
                /\ h > Len(Modules) => LoadedModules'[Modules'[h].Name] = h
                /\ (h <= Len(Modules) /\ caller' = "context")
                      => LoadedModules'[Modules'[h].Name]
                            = LoadedModules[Modules[h].Name]
                /\ (h <= Len(Modules) /\ caller' = "loader"
                      /\ last'.ret # 0 /\ last'.name = Modules[h].Name)
                      => LoadedModules'[Modules[h].Name] = last'.ret]_vars

\* C7 witness: the module of A is inert for want of B, B was loaded and is
\* usable afterwards, and A still names the inert handle.
C7_Witness ==
    \E h, d \in Handles :
        /\ h < d
        /\ MissingDependencyModule(h)
        /\ Modules[h].Name = "A"
        /\ Modules[d].Name = "B"
        /\ Modules[d].File = d
        /\ LoadedModules["A"] = h
        /\ Modules[h].File = 0

\* The statuses that leave a module inert.
InertStatuses == {"FormatTooNew", "Malformed", "MissingDependency"}

\* The load request that just returned newly allocated an inert module,
\* reported it once and registered it under the requested name.
InertHandleReturned ==
    /\ Len(diags) = 1
    /\ last.ret \in Handles
    /\ Modules[last.ret].File = 0
    /\ Modules[last.ret].Name = last.name
    /\ LoadedModules[last.name] = last.ret

\* C8 as stated: every recoverable failure of a load request (an I/O error
\* other than not-found, format too new, malformed, missing dependency)
\* gives a diagnostic and an inert handle registered under the name.
C8_EveryFailureGivesInertHandle ==
    (/\ last.op = "loadModule"
     /\ \/ last.err \notin {"ok", "ENOENT", "none"}
        \/ last.status \in InertStatuses)
        => InertHandleReturned

\* C8 amended: format too new, malformed and missing dependency give one
\* diagnostic and an inert handle registered under the name; an I/O error
\* other than not-found gives one diagnostic (sema_opening_import, with the
\* module name and the error) and no handle.
C8_FailuresAfterSearchGiveInertHandle ==
    last.op = "loadModule"
        => /\ last.status \in InertStatuses => InertHandleReturned
           /\ last.err \notin {"ok", "ENOENT", "none"}
                 => /\ Len(diags) = 1
                    /\ diags[1].id = "sema_opening_import"
                    /\ diags[1].text = <<last.name, last.err>>
                    /\ last.ret = 0
                    /\ last.status = "none"

\* C8 witness: a request that failed with an I/O error other than
\* not-found, after a module was loaded.
C8_Witness ==
    /\ last.op = "loadModule"
    /\ last.err = "EACCES"
    /\ last.ret = 0
    /\ Len(diags) = 1
    /\ Modules # <<>>

\* C9: a load whose parse is FormatTooNew or Malformed emits exactly one
\* diagnostic (the one of that status), allocates a handle with no module
\* file, registers it under the name, and leaves the generation and the
\* registry list as they were.
C9_UnreadableModuleIsInert ==
    [][(last'.op = "loadModule"
          /\ last'.parse \in {"FormatTooNew", "Malformed"})
          => /\ Len(diags') = 1
             /\ diags'[1].id =
                   (IF last'.parse = "FormatTooNew"
                    THEN "serialization_module_too_new"
                    ELSE "serialization_malformed_module")
             /\ last'.ret = Len(Modules) + 1
             /\ Len(Modules') = Len(Modules) + 1
             /\ Modules'[last'.ret].File = 0
             /\ LoadedModules'[last'.name] = last'.ret
             /\ Generation' = Generation
             /\ LoadedModuleFiles' = LoadedModuleFiles]_vars

\* C9 witness: a malformed module loaded after a usable one.
C9_Witness ==
    /\ last.op = "loadModule"
    /\ last.parse = "Malformed"
    /\ Modules[last.ret].File = 0
    /\ LoadedModuleFiles # <<>>
    /\ Generation = 1

\* C10: a request for a name that is found nowhere (the search ends with
\* file-not-found) emits no diagnostic, returns no handle and leaves the
\* module table, the registry list, the generation and the registered
\* buffers as they were.
C10_NotFoundIsSilent ==
    [][(last'.op = "loadModule" /\ last'.err = "ENOENT")
          => /\ diags' = <<>>
             /\ last'.ret = 0
             /\ last'.diskSearch
             /\ UNCHANGED <<LoadedModules, Modules, LoadedModuleFiles,
                            Generation, Bitstreams>>]_vars

\* C10 witness: a request that found nothing, with a buffer registered
\* under another name and a module already loaded.
C10_Witness ==
    /\ last.op = "loadModule"
    /\ last.err = "ENOENT"
    /\ last.name = "B"
    /\ last.memLookup
    /\ Bitstreams["A"] \notin {Absent, NoBuffer}
    /\ diags = <<>>

\* The step is a call of loadModule.
LoadStep == last'.op = "loadModule" /\ caller' = "loader"

\* C11: a request whose path has more than one element returns no handle,
\* runs neither the registered-buffer lookup nor the disk search, emits no
\* diagnostic and leaves the registered buffers, the module table, the
\* registry list and the generation as they were.
C11_SubmodulePathRejected ==
    [][(LoadStep /\ Len(last'.path) > 1)
          => /\ last'.ret = 0
             /\ ~last'.memLookup
             /\ ~last'.diskSearch
             /\ last'.buffer = -1
             /\ diags' = <<>>
             /\ UNCHANGED <<Bitstreams, LoadedModules, Modules,
                            LoadedModuleFiles, Generation>>]_vars

\* C11 witness: a submodule request rejected although a buffer is
\* registered under its first element and a module is already loaded.
C11_Witness ==
    /\ last.op = "loadModule"
    /\ last.path = <<"A", "B">>
    /\ last.ret = 0
    /\ Bitstreams["A"] \notin {Absent, NoBuffer}
    /\ Modules # <<>>

\* The request had a buffer to take from the registered bitstreams.
RegisteredAvailable == request.registered \notin {Absent, NoBuffer}

\* The candidates of the request that exist and hold the file: the
\* directory of the importing file exists only for a valid location in a
\* buffer that has a parent directory.
AvailableOnDisk ==
    {i \in 1..NumCandidates :
        /\ request.disk[i] = "ok"
        /\ i = 1 => request.loc = "dir"}

\* C12: the buffer loaded is the registered one if there is one, otherwise
\* the first of the disk candidates that has the file, in the order
\* importing directory, current directory, search paths as configured; a
\* handle is returned whenever any of these places has it.
C12_FirstMatchWins ==
    (last.op = "loadModule" /\ request # NoRequest)
        => /\ RegisteredAvailable => last.buffer = 0
           /\ (~RegisteredAvailable /\ AvailableOnDisk # {})
                 => /\ last.buffer \in AvailableOnDisk
                    /\ \A i \in AvailableOnDisk : last.buffer <= i
           /\ (RegisteredAvailable \/ AvailableOnDisk # {})
                 <=> last.ret # 0

\* C12 witness: the file is in the importing directory, the current
\* directory and both search paths, nothing is registered any more, and the
\* one of the importing directory is loaded.
C12_Witness ==
    /\ last.op = "loadModule"
    /\ request.loc = "dir"
    /\ request.registered = NoBuffer
    /\ \A i \in 1..NumCandidates : request.disk[i] = "ok"
    /\ last.buffer = 1

\* C13 as stated: a request that takes a registered buffer removes the entry
\* from the map, and a map whose only entry was taken is empty afterwards.
C13_HitRemovesEntry ==
    [][(LoadStep /\ last'.buffer = 0)
          => /\ Bitstreams'[last'.name] = Absent
             /\ BitstreamKeys(Bitstreams) = {last'.name}
                   => BitstreamKeys(Bitstreams') = {}]_vars

\* The disk candidates the request tried, in order.
TriedCandidates ==
    {i \in 1..NumCandidates : i = 1 => request.loc = "dir"}

\* C14: when the disk is searched, a failing candidate never ends the
\* search: a later candidate that has the file is loaded whatever the
\* errors before it; when no candidate has it, the error is the one of the
\* last candidate, a diagnostic is emitted exactly when that error is not
\* file-not-found, and no handle is returned.
C14_LastErrorSurfaces ==
    (last.op = "loadModule" /\ request # NoRequest /\ last.diskSearch)
        => IF \E i \in TriedCandidates : request.disk[i] = "ok"
           THEN /\ last.err = "ok"
                /\ last.ret # 0
                /\ request.disk[last.buffer] = "ok"
           ELSE /\ last.err = request.disk[NumCandidates]
                /\ last.ret = 0
                /\ (diags # <<>>) <=> (request.disk[NumCandidates] # "ENOENT")
                /\ Len(diags) <= 1
                /\ diags # <<>>
                      => /\ diags[1].id = "sema_opening_import"
                         /\ diags[1].text = <<last.name, last.err>>

\* C14 witness: every candidate fails, the earlier ones with an I/O error
\* and the last with file-not-found; nothing is reported.
C14_Witness ==
    /\ last.op = "loadModule"
    /\ request.loc = "dir"
    /\ \A i \in 1..(NumCandidates - 1) : request.disk[i] = "EACCES"
    /\ request.disk[NumCandidates] = "ENOENT"
    /\ last.err = "ENOENT"
    /\ diags = <<>>
    /\ last.ret = 0

\* The dependencies of the request that no registered module satisfies, in
\* declaration order.
UnloadedDependencies ==
    SelectSeq(request.deps, LAMBDA d : LoadedModules[d] = 0)

\* C15: a failed association emits exactly one diagnostic: for one unloaded
\* dependency the single-dependency one with its raw access path, for more
\* the multi-dependency one with the unloaded dependencies in declaration
\* order, each in quotes, joined by ", "; loaded dependencies do not appear.
C15_MissingDependenciesReported ==
    (last.op = "loadModule" /\ request # NoRequest
        /\ last.status = "MissingDependency")
        => LET m == UnloadedDependencies
               text == diags[1].text
           IN /\ Len(diags) = 1
              /\ m # <<>>
              /\ Len(m) = 1
                    => /\ diags[1].id =
                             "serialization_missing_single_dependency"
                       /\ text = m
              /\ Len(m) > 1
                    => /\ diags[1].id = "serialization_missing_dependencies"
                       /\ Len(text) = 2 * Len(m) + 1
                       /\ text[1] = "'"
                       /\ text[Len(text)] = "'"
                       /\ \A i \in 1..Len(m) : text[2 * i] = m[i]
                       /\ \A i \in 1..(Len(m) - 1) : text[2 * i + 1] = "', '"

\* C15 witness: A declares C and B, neither is loaded, and the diagnostic
\* lists 'C', 'B'.
C15_Witness ==
    /\ last.op = "loadModule"
    /\ last.status = "MissingDependency"
    /\ request.deps = <<"C", "B">>
    /\ Len(diags) = 1
    /\ diags[1].text = <<"'", "C", "', '", "B", "'">>

\* C15 second case, reached as well: B is loaded, A declares B and C, and
\* the single-dependency diagnostic names C alone.
C15_SingleOfTwo ==
    /\ last.op = "loadModule"
    /\ last.status = "MissingDependency"
    /\ request.deps = <<"B", "C">>
    /\ LoadedModules["B"] # 0
    /\ diags[1].text = <<"C">>

\* C16: lookupValue with a one-element access path other than the name
\* delegates to nothing and leaves the results alone, whatever the module;
\* with an empty path or the name itself as path, the module file of a
\* usable module is asked for the name.
C16_ScopedImportFilter ==
    (last.op = "lookupValue" /\ last.module \in Handles)
        => /\ (Len(last.path) = 1 /\ last.path[1] # last.name)
                 => /\ last.delegated = <<>>
                    /\ last.results = last.resultsIn
           /\ ((last.path = <<>> \/ last.path = <<last.name>>)
                 /\ Modules[last.module].File # 0)
                 => /\ last.delegated = <<Modules[last.module].File>>
                    /\ last.results =
                          Append(last.resultsIn,
                                 [file |-> Modules[last.module].File,
                                  what |-> last.name])

\* C16 witness: a usable module asked for B through an import scoped to A.
C16_Witness ==
    /\ last.op = "lookupValue"
    /\ last.path = <<"A">>
    /\ last.name = "B"
    /\ Modules[last.module].File # 0
    /\ last.delegated = <<>>

\* The step appended an entry to LoadedModuleFiles.
EntryAppended == Len(LoadedModuleFiles') = Len(LoadedModuleFiles) + 1

\* C17 as stated: the entry is recorded with the generation from before the
\* increment of its load, the counter being incremented after the append.
C17_RecordedBeforeIncrement ==
    [][EntryAppended
          => /\ LoadedModuleFiles'[Len(LoadedModuleFiles')].gen = Generation
             /\ Generation' = Generation + 1]_vars

\* C17 amended: the counter is incremented first, and the entry is recorded
\* with the generation after that increment.
C17_RecordedAfterIncrement ==
    [][EntryAppended
          => /\ Generation' = Generation + 1
             /\ LoadedModuleFiles'[Len(LoadedModuleFiles')].gen = Generation'
             /\ LoadedModuleFiles'[Len(LoadedModuleFiles')].file = last'.ret
             /\ last'.op = "loadModule"]_vars

\* C17 witness: the second usable module, recorded with generation 2.
C17_Witness ==
    /\ last.op = "loadModule"
    /\ last.status = "Valid"
    /\ Len(LoadedModuleFiles) = 2
    /\ LoadedModuleFiles[2] = [file |-> last.ret, gen |-> 2]
    /\ Generation = 2

\* C18: the recorded generations increase strictly along the list and none
\* exceeds the current generation; the list only grows at its end and the
\* counter never decreases.
C18_GenerationsMonotonic ==
    /\ [](/\ \A i, j \in 1..Len(LoadedModuleFiles) :
                i < j => LoadedModuleFiles[i].gen < LoadedModuleFiles[j].gen
          /\ \A i \in 1..Len(LoadedModuleFiles) :
                LoadedModuleFiles[i].gen <= Generation)
    /\ [][/\ Len(LoadedModuleFiles') >= Len(LoadedModuleFiles)
          /\ \A i \in 1..Len(LoadedModuleFiles) :
                LoadedModuleFiles'[i] = LoadedModuleFiles[i]
          /\ Generation' >= Generation]_vars

\* C18 witness: two entries with increasing generations, the newer one
\* recorded with the current generation.
C18_Witness ==
    /\ Len(LoadedModuleFiles) = 2
    /\ LoadedModuleFiles[1].gen < LoadedModuleFiles[2].gen
    /\ LoadedModuleFiles[2].gen = Generation

\* C19: after a load request that returned a handle the module table maps
\* the first element of the path to that handle and is otherwise as before;
\* after one that returned none the table is as before.
C19_TableFollowsReturnedHandle ==
    [][LoadStep
          => IF last'.ret # 0
             THEN /\ LoadedModules'[last'.path[1]] = last'.ret
                  /\ \A n \in Names \ {last'.path[1]} :
                        LoadedModules'[n] = LoadedModules[n]
             ELSE LoadedModules' = LoadedModules]_vars

\* C19 witness: a second handle returned for A, which the table now maps
\* A to.
C19_Witness ==
    /\ last.op = "loadModule"
    /\ last.ret = 2
    /\ Modules[1].Name = "A"
    /\ last.name = "A"
    /\ LoadedModules["A"] = 2

\* C20: a registered buffer is handed to the reader only by a request that
\* finds it in its entry, which is emptied by that request and never gets a
\* buffer again; a later request for the name searches the disk and loads
\* no registered buffer.
C20_RegisteredBufferHandedOnce ==
    [][/\ \A n \in Names :
             Bitstreams[n] = NoBuffer => Bitstreams'[n] = NoBuffer
       /\ (LoadStep /\ Len(last'.path) = 1)
             => /\ last'.buffer = 0
                   => /\ Bitstreams[last'.name] \notin {Absent, NoBuffer}
                      /\ Bitstreams'[last'.name] = NoBuffer
                      /\ ~last'.diskSearch
                /\ Bitstreams[last'.name] = NoBuffer
                   => /\ last'.diskSearch
                      /\ last'.buffer # 0]_vars

\* C20 witness: the second request for A, whose registered buffer the first
\* one took, loaded the file from the disk.
C20_Witness ==
    /\ last.op = "loadModule"
    /\ last.name = "A"
    /\ Len(Modules) = 2
    /\ Modules[1].Name = "A"
    /\ Bitstreams["A"] = NoBuffer
    /\ last.memLookup
    /\ last.diskSearch
    /\ last.buffer >= 1

====
